---- MODULE Spec2Model ----
(***************************************************************************)
(* Multi-pass research orchestrator (ResearchPipeline.run) together with   *)
(* the decomposition resolver, the evidence cache / search orchestrator,   *)
(* the summarization cache and the judge wrapper, over the relational      *)
(* store of database.py.                                                   *)
(*                                                                         *)
(* Conventions.                                                            *)
(*  - A nullable column or an Optional local is a sequence of length <= 1: *)
(*    Null is <<>> and Some(v) is <<v>>.                                   *)
(*  - A multi-line Python string is the sequence of its lines, so that     *)
(*    "\n".join(xs) and s.split("\n") are modelled by what they do         *)
(*    (JoinLines, SplitLines); the empty string is <<"">>.                 *)
(*  - Scores and confidences are floats in [0,1]; they are kept as         *)
(*    integer hundredths (0.85 is 85, 0.5 is 50).                          *)
(*  - AUTOINCREMENT ids are the row's index in the table's sequence;       *)
(*    uuid4 run ids are modelled as fresh integers.                        *)
(***************************************************************************)
EXTENDS Naturals, Sequences, FiniteSets, TLC

\* ------------------------------------------------------------------------
\* Bounds of the model (not program constants)
\* ------------------------------------------------------------------------
MaxInvocations == 2

\* Longest base / follow-up list of the direct calls of the gather's
\* deduplication.
MaxListLen == 2

\* ------------------------------------------------------------------------
\* Program constants
\* ------------------------------------------------------------------------
MAX_PASSES == 3

CONFIDENCE_THRESHOLD == 85

SCORE_CUTOFF == 50

\* ------------------------------------------------------------------------
\* Generic helpers
\* ------------------------------------------------------------------------
Null == <<>>

Some(v) == <<v>>

Range(s) == {s[i] : i \in 1..Len(s)}

\* Python truthiness of an Optional[str]: None and "" are falsy.
Truthy(opt) == opt # Null /\ opt[1] # ""

RECURSIVE SeqOfSet(_)
\* Some enumeration of a finite set (list(set(..)): the order is arbitrary
\* and is never observed: url rows are only ever read back into a set).
SeqOfSet(S) == IF S = {} THEN <<>>
               ELSE LET e == CHOOSE e \in S : TRUE IN <<e>> \o SeqOfSet(S \ {e})

RECURSIVE Flatten(_)
Flatten(ss) == IF ss = <<>> THEN <<>> ELSE Head(ss) \o Flatten(Tail(ss))

\* list(dict.fromkeys(xs)): order-preserving deduplication, first occurrence kept.
DictFromKeys(xs) == LET keep(i) == \A j \in 1..(i-1) : xs[j] # xs[i]
                        idx == {i \in 1..Len(xs) : keep(i)}
                        F[i \in 0..Len(xs)] ==
                            IF i = 0 THEN <<>>
                            ELSE IF i \in idx THEN Append(F[i-1], xs[i]) ELSE F[i-1]
                    IN F[Len(xs)]

\* "\n".join(lines) as a sequence of lines; joining nothing gives "".
JoinLines(lines) == IF lines = <<>> THEN <<"">> ELSE lines

\* text.split("\n")
SplitLines(text) == text

\* filter(None, xs): drops the empty strings.
FilterNone(xs) == SelectSeq(xs, LAMBDA l : l # "")

\* ------------------------------------------------------------------------
\* Input domains (what the caller and the external capabilities may supply).
\*
\* The inputs are explored under three profiles, fixed in the initial state:
\*   "passes" - one invocation of run(); every decomposition shape, every
\*              judge output and every answer, with each search finding
\*              evidence and each analyzer completion parsing;
\*   "resume" - up to MaxInvocations invocations with one query text; every
\*              search and analyzer outcome per question, with fewer
\*              decomposition shapes and judge outputs;
\*   "runs"   - as "resume" over two query texts whose runs share a
\*              sub-question text, with one-question decompositions.
\* Two more profiles serve the specifications of the concurrent steps:
\*   "fanout" - the search calls of a gather return one by one, in any
\*              order; decompositions of two and three sub-questions;
\*   "race"   - two callers of the resolver whose lookups and inserts
\*              interleave, over two query texts.
\* ------------------------------------------------------------------------
Profiles == {"passes", "resume", "runs"}

Queries(p) == IF p \in {"runs", "race"} THEN {"qA", "qB"} ELSE {"qA"}

InvocationLimit(p) == IF p = "passes" THEN 1 ELSE MaxInvocations

\* One raw entry of the decomposition's sub_questions list: a string, or a
\* dict of tag -> text (items in insertion order).
StrQ(t) == [isdict |-> FALSE, text |-> t, items |-> <<>>]

DictQ(items) == [isdict |-> TRUE, text |-> "", items |-> items]

RawDecompositions(p) ==
    IF p = "fanout"
    THEN { <<StrQ("s1"), StrQ("s2")>>,
           <<StrQ("s1"), StrQ("s2"), StrQ("s3")>> }
    ELSE IF p = "race"
    THEN { <<StrQ("s1")>>,
           <<StrQ("s1"), StrQ("s2")>> }
    ELSE IF p = "passes"
    THEN { <<>>,
           <<StrQ("s1")>>,
           <<StrQ("s1"), StrQ("s2")>>,
           <<StrQ("s1"), StrQ("s2"), StrQ("s3")>>,
           <<StrQ("s1"), StrQ("s1")>>,
           <<DictQ(<<<<"factual", "s1">>, <<"speculative", "s2">>>>)>> }
    ELSE IF p = "resume"
    THEN { <<StrQ("s1")>>,
           <<StrQ("s1"), StrQ("s2")>> }
    ELSE { <<StrQ("s1")>> }

\* Outcome of retrieve_context + classification_chain.invoke.
ClassOutcomes(p) ==
    IF p = "passes"
    THEN { [kind |-> "ok", category |-> "factual"],
           [kind |-> "llm_fail", category |-> ""],
           [kind |-> "ctx_fail", category |-> ""] }
    ELSE { [kind |-> "ok", category |-> "factual"] }

\* Outcome of decomposition_chain.invoke.
DecompOutcomes(p) ==
    { [ok |-> FALSE, sub_questions |-> <<>>, primary_intent |-> "",
       relationship |-> "", difficulty_level |-> ""] }
    \cup
    { [ok |-> TRUE, sub_questions |-> raw, primary_intent |-> "intent",
       relationship |-> "sequential", difficulty_level |-> "simple"]
      : raw \in RawDecompositions(p) }

\* One item of a search response.
Item(u, t, c, s) == [url |-> u, title |-> t, content |-> c, score |-> s]

SearchResponses(p) ==
    IF p = "passes"
    THEN { <<Item("u1", "t1", "c1", 90)>> }
    ELSE IF p = "fanout"
    THEN { <<>>,
           <<Item("u1", "t1", "c1", 90)>> }
    ELSE { <<>>,
           <<Item("u1", "t1", "c1", 50)>>,
           <<Item("u1", "t1", "c1", 90), Item("u1", "t2", "c2", 51)>> }

\* The analyzer completion, already classified by what
\* extract_summary_from_response makes of it.
SummaryResponses(p) ==
    IF p \in {"passes", "fanout"}
    THEN { [shape |-> "summary", bullets |-> <<"b1">>] }
    ELSE { [shape |-> "summary", bullets |-> <<"b1">>],
           [shape |-> "garbage", bullets |-> <<>>] }

Answers(p) == IF p = "passes" THEN {"", "a1", "a2"}
              ELSE IF p = "fanout" THEN {"a1"}
              ELSE {"a1", "a2"}

\* What judge_chain.invoke may return: confidence and recommended_follow_up.
JudgeOutputs(p) ==
    IF p = "passes"
    THEN { [confidence_score |-> 60, recommended_follow_up |-> <<>>],
           [confidence_score |-> 60, recommended_follow_up |-> <<"f1", "f2">>],
           [confidence_score |-> 60, recommended_follow_up |-> <<"f3", "f1">>],
           [confidence_score |-> 60, recommended_follow_up |-> <<"f1", "f1">>],
           [confidence_score |-> 60, recommended_follow_up |-> <<"s1">>],
           [confidence_score |-> 85, recommended_follow_up |-> <<>>],
           [confidence_score |-> 90, recommended_follow_up |-> <<"f1">>] }
    ELSE IF p = "fanout"
    THEN { [confidence_score |-> 60, recommended_follow_up |-> <<"f1", "f2">>],
           [confidence_score |-> 90, recommended_follow_up |-> <<>>] }
    ELSE { [confidence_score |-> 60, recommended_follow_up |-> <<"s1", "f1">>],
           [confidence_score |-> 90, recommended_follow_up |-> <<>>] }

\* ------------------------------------------------------------------------
\* State
\* ------------------------------------------------------------------------
VARIABLES
    profile,                \* the input profile of the behaviour (never changes)
    research_runs,          \* table research_runs, in insertion order
    sub_questions,          \* table sub_questions (id = index)
    search_results,         \* table search_results (id = index)
    sub_question_summaries, \* table sub_question_summaries (id = index)
    judge_evaluations,      \* table judge_evaluations (id = index)
    pc,                     \* position of ResearchPipeline.run
    query,                  \* run(query)
    run_id,                 \* local run_id
    base_sub_questions,     \* local base_sub_questions
    follow_up_questions,    \* local follow_up_questions
    final_answer,           \* local final_answer (None until the first pass)
    judge_result,           \* local judge_result (None until the first judge)
    pass_idx,               \* loop variable of the pass loop
    invocations,            \* number of run() invocations started
    returned,               \* query text -> what the first resolver call with it returned
    hist,                   \* the passes of the current invocation, as executed
    obs,                    \* what the last step did (calls issued, arguments)
    searches,               \* the fan-out of tavily_search under way (calls outstanding)
    resolvers               \* concurrent callers of the resolver: position and locals

db == <<research_runs, sub_questions, search_results,
        sub_question_summaries, judge_evaluations>>

locals == <<pc, query, run_id, base_sub_questions, follow_up_questions,
            final_answer, judge_result, pass_idx>>

\* The state of the steps that run concurrently.
conc == <<searches, resolvers>>

vars == <<profile, research_runs, sub_questions, search_results,
          sub_question_summaries, judge_evaluations,
          pc, query, run_id, base_sub_questions, follow_up_questions,
          final_answer, judge_result, pass_idx, invocations, returned, hist, obs,
          searches, resolvers>>

\* ------------------------------------------------------------------------
\* Observation of one step: the external calls it issued and what it passed.
\* ------------------------------------------------------------------------
NoObs == [step |-> "none", cache_hit |-> FALSE,
          classify_calls |-> 0, decompose_calls |-> 0,
          base_qs |-> <<>>, follow_qs |-> <<>>,
          searched |-> <<>>, cached |-> <<>>,
          summary_calls |-> <<>>, summary_shapes |-> <<>>,
          analyzed |-> <<>>, synthesis_calls |-> 0,
          judge_calls |-> 0, judge_input |-> <<>>, wrote_final |-> FALSE,
          class_outcome |-> "", decomp_ok |-> FALSE,
          crash_query |-> "", crash_run_id |-> 0, crash_cause |-> "",
          search_returned |-> <<>>]

\* No fan-out under way.
NoSearches == [phase |-> "none", pending |-> {}, returned |-> <<>>]

\* The concurrent callers of the resolver, none of them in a call.
Callers == {1, 2}

NoResolvers == [p \in Callers |-> [phase |-> "idle", query |-> "", run_id |-> 0,
                                   hit |-> FALSE, calls |-> 0]]

NoHist == [fresh |-> FALSE, passes |-> <<>>, evals_before |-> 0, resumed |-> FALSE]

\* ------------------------------------------------------------------------
\* database.py: the tables start empty (init_db creates them)
\* ------------------------------------------------------------------------
RunRow(id, q, cls, intent, rel, diff) ==
    [id |-> id, original_query |-> q, classification |-> cls,
     primary_intent |-> intent, relationship |-> rel, difficulty_level |-> diff,
     final_answer |-> Null]

SubQuestionRow_SamePosition(rid, text, pos) ==
    [research_run_id |-> rid, sub_question |-> text, position |-> 1]

\* INSERT INTO sub_questions (research_run_id, sub_question, position)
SubQuestionRow(rid, text, pos) ==
    [research_run_id |-> rid, sub_question |-> text, position |-> pos]

SearchRow(sqid, q, type, url, snippet) ==
    [sub_question_id |-> sqid, search_query |-> q, search_type |-> type,
     url |-> url, snippet |-> snippet]

SummaryRow(sqid, summary) == [sub_question_id |-> sqid, summary_json |-> summary]

JudgeRow(rid, result) ==
    [research_run_id |-> rid, confidence_score |-> result.confidence_score,
     recommended_follow_up |-> result.recommended_follow_up]

\* ------------------------------------------------------------------------
\* query_classification_decomposition.py
\* ------------------------------------------------------------------------
\* k.upper() for the tags the decomposition may use.
Upper(k) == CASE k = "factual" -> "FACTUAL"
              [] k = "speculative" -> "SPECULATIVE"
              [] OTHER -> k

\* f"[{k.upper()}] {v}"
TagLabel(k, v) == "[" \o Upper(k) \o "] " \o v

NormalizeEntry(e) ==
    IF e.isdict THEN [i \in 1..Len(e.items) |-> TagLabel(e.items[i][1], e.items[i][2])]
    ELSE <<e.text>>

normalize_sub_questions(raw) == Flatten([i \in 1..Len(raw) |-> NormalizeEntry(raw[i])])

CachedRun_NoCache(q) == Null

\* SELECT ... FROM research_runs WHERE original_query = ? ORDER BY created_at DESC LIMIT 1
\* (rows are created one after the other: the latest row is the last one)
CachedRun(q) ==
    LET ids == {i \in 1..Len(research_runs) : research_runs[i].original_query = q}
    IN IF ids = {} THEN Null
       ELSE Some(research_runs[CHOOSE i \in ids : \A j \in ids : j <= i])

RECURSIVE OrderByPosition(_)
\* ids of sub_questions rows sorted by position (rowid breaks ties)
OrderByPosition(ids) ==
    IF ids = {} THEN <<>>
    ELSE LET m == CHOOSE i \in ids : \A j \in ids :
                      \/ sub_questions[i].position < sub_questions[j].position
                      \/ /\ sub_questions[i].position = sub_questions[j].position
                         /\ i <= j
         IN <<m>> \o OrderByPosition(ids \ {m})

\* SELECT sub_question FROM sub_questions WHERE research_run_id = ? ORDER BY position
CachedSubQuestions(rid) ==
    LET ord == OrderByPosition({i \in 1..Len(sub_questions) :
                                  sub_questions[i].research_run_id = rid})
    IN [k \in 1..Len(ord) |-> sub_questions[ord[k]].sub_question]

FallbackDecomposition_Empty(q) ==
    [sub_questions |-> <<>>, primary_intent |-> "Answer the query directly",
     relationship |-> "parallel", difficulty_level |-> "moderate"]

\* The except branch of the decomposition phase.
FallbackDecomposition(q) ==
    [sub_questions |-> <<q>>, primary_intent |-> "Answer the query directly",
     relationship |-> "parallel", difficulty_level |-> "moderate"]

\* The decomposition result the miss branch ends up with.  retrieve_context
\* runs inside the classification try: when it raises, memory_context is
\* unbound and the decomposition try fails as well.
DecompositionResult(q, c, d) ==
    IF d.ok /\ c.kind # "ctx_fail"
    THEN [sub_questions |-> normalize_sub_questions(d.sub_questions),
          primary_intent |-> d.primary_intent,
          relationship |-> d.relationship,
          difficulty_level |-> d.difficulty_level]
    ELSE FallbackDecomposition(q)

QueryType(c) == IF c.kind = "ok" THEN c.category ELSE "ambiguous"

\* research_decomposition_pipeline, lines 169-190: the cached run is returned
\* with its stored sub-questions; nothing is written.
ResolverHit(cached_run) ==
    [hit |-> TRUE, run_id |-> cached_run.id,
     sub_questions |-> CachedSubQuestions(cached_run.id),
     runs |-> research_runs, subs |-> sub_questions,
     classify_calls |-> 0, decompose_calls |-> 0]

\* research_decomposition_pipeline, lines 199-296: classify, decompose,
\* insert the run and its sub-questions under a fresh id, return them.
ResolverMiss(q, c, d) ==
    LET new_id == Len(research_runs) + 1
        res == DecompositionResult(q, c, d)
        n == Len(res.sub_questions)
    IN [hit |-> FALSE, run_id |-> new_id,
        sub_questions |-> res.sub_questions,
        runs |-> Append(research_runs,
                        RunRow(new_id, q, QueryType(c), res.primary_intent,
                               res.relationship, res.difficulty_level)),
        subs |-> sub_questions \o
                 [idx \in 1..n |-> SubQuestionRow(new_id, res.sub_questions[idx], idx)],
        classify_calls |-> IF c.kind = "ctx_fail" THEN 0 ELSE 1,
        decompose_calls |-> IF c.kind = "ctx_fail" THEN 0 ELSE 1]

\* research_decomposition_pipeline(q): [hit, run_id, sub_questions, runs, subs]
\* is the returned value together with the tables as the call leaves them.
research_decomposition_pipeline(q, c, d) ==
    IF CachedRun(q) # Null THEN ResolverHit(CachedRun(q)[1]) ELSE ResolverMiss(q, c, d)

\* ------------------------------------------------------------------------
\* query_search.py
\* ------------------------------------------------------------------------
\* sub_q_map of run_pipeline: sub_question text -> id for the rows of the run;
\* the dict comprehension keeps the last row of a repeated text.
SubQMap(rid) ==
    LET ids == {i \in 1..Len(sub_questions) : sub_questions[i].research_run_id = rid}
        texts == {sub_questions[i].sub_question : i \in ids}
    IN [t \in texts |->
          CHOOSE i \in ids : /\ sub_questions[i].sub_question = t
                             /\ \A j \in ids : sub_questions[j].sub_question = t => j <= i]

\* sub_q_map.get(question): 0 stands for None
MapGet(map, q) == IF q \in DOMAIN map THEN map[q] ELSE 0

EvidenceRows_None(sqid, type) == <<>>

\* SELECT url, snippet FROM search_results WHERE sub_question_id = ? AND search_type = ?
EvidenceRows(sqid, type) ==
    SelectSeq(search_results,
              LAMBDA r : r.sub_question_id = sqid /\ r.search_type = type)

\* The cache-hit branch: evidence assembled from the stored rows.
CachedEvidence(rows) ==
    [urls |-> {rows[i].url[1] : i \in {k \in 1..Len(rows) : Truthy(rows[k].url)}},
     snippets |-> JoinLines(
         LET keep == SelectSeq(rows, LAMBDA r : Truthy(r.snippet))
         IN [k \in 1..Len(keep) |-> keep[k].snippet[1]])]

\* f"- {title} | {content}"
SnippetLine(item) == "- " \o item.title \o " | " \o item.content

\* tavily_search, the body of the loop over (q, r): score filter, url set,
\* one snippet line per accepted item.
TavilyEntry(response) ==
    LET accepted == SelectSeq(response, LAMBDA it : it.score > SCORE_CUTOFF)
    IN [urls |-> {accepted[i].url : i \in {k \in 1..Len(accepted) : accepted[k].url # ""}},
        snippets |-> JoinLines([k \in 1..Len(accepted) |-> SnippetLine(accepted[k])])]

\* The rows run_pipeline inserts for one fresh question (none when the
\* question has no sub_questions row of the run).
FreshRows(sqid, q, data) ==
    IF sqid = 0 THEN <<>>
    ELSE LET lines == FilterNone(SplitLines(data.snippets))
             urls == SeqOfSet(data.urls)
         IN [k \in 1..Len(lines) |-> SearchRow(sqid, q, "depth", Null, Some(lines[k]))]
            \o [k \in 1..Len(urls) |-> SearchRow(sqid, q, "depth", Some(urls[k]), Null)]

AllQuestions_NoDedup(base_qs, follow_qs) == base_qs \o follow_qs

\* run_pipeline, lines 282-311: the cache check.  A question is a miss when
\* it has no sub_questions row of the run or no stored depth row.
AllQuestions(base_qs, follow_qs) == DictFromKeys(base_qs \o follow_qs)

IsCacheHit_Never(map, q) == FALSE

IsCacheHit(map, q) == MapGet(map, q) # 0 /\ EvidenceRows(MapGet(map, q), "depth") # <<>>

CachedQuestions(map, all) == SelectSeq(all, LAMBDA q : IsCacheHit(map, q))

MissingQuestions_All(map, all) == all

MissingQuestions(map, all) == SelectSeq(all, LAMBDA q : ~IsCacheHit(map, q))

\* analyze_sub_questions: SELECT id FROM sub_questions WHERE sub_question = ?
\* followed by fetchone(): the first row with that text, of any run (0: none).
AnalyzeLookup(q) ==
    LET ids == {i \in 1..Len(sub_questions) : sub_questions[i].sub_question = q}
    IN IF ids = {} THEN 0 ELSE CHOOSE i \in ids : \A j \in ids : i <= j

\* json.dumps / json.loads of a summary list
JsonDumps(v) == [json |-> v]

JsonLoads(t) == t.json

SummaryOf_NoCache(table, sqid) == Null

\* SELECT summary_json FROM sub_question_summaries WHERE sub_question_id = ?
\* followed by fetchone() and json.loads
SummaryOf(table, sqid) ==
    LET ids == {i \in 1..Len(table) : table[i].sub_question_id = sqid}
    IN IF ids = {} THEN Null
       ELSE Some(JsonLoads(table[CHOOSE i \in ids : \A j \in ids : i <= j].summary_json))

extract_summary_from_response_Empty(response) ==
    IF response.shape \in {"summary", "properties"} THEN response.bullets
    ELSE <<>>

\* extract_summary_from_response, by the shape of the completion text
extract_summary_from_response(response) ==
    IF response.shape \in {"summary", "properties"} THEN response.bullets
    ELSE <<"Failed to parse response">>

\* The questions analyze_sub_questions sends to the analyzer completion:
\* those with a sub_questions row whose id has no stored summary.
NeedsSummary(keys) ==
    {q \in Range(keys) :
        AnalyzeLookup(q) # 0 /\ SummaryOf(sub_question_summaries, AnalyzeLookup(q)) = Null}

\* analyze_sub_questions over the keys of search_results, in dict order;
\* llm maps a question to the analyzer's completion.  Result: the summaries
\* table, the analyzed entries and the completions issued.
RECURSIVE Analyze(_, _, _)
Analyze(keys, llm, acc) ==
    IF keys = <<>> THEN acc
    ELSE LET q == Head(keys)
             sqid == AnalyzeLookup(q)
             cached == SummaryOf(acc.table, sqid)
             summary == IF cached # Null THEN cached[1]
                        ELSE extract_summary_from_response(llm[q])
         IN IF sqid = 0 THEN Analyze(Tail(keys), llm, acc)
            ELSE Analyze(Tail(keys), llm,
                   [table |-> IF cached # Null THEN acc.table
                              ELSE Append(acc.table, SummaryRow(sqid, JsonDumps(summary))),
                    analyzed |-> Append(acc.analyzed, [question |-> q, summary |-> summary]),
                    calls |-> IF cached # Null THEN acc.calls ELSE Append(acc.calls, q),
                    shapes |-> IF cached # Null THEN acc.shapes
                               ELSE Append(acc.shapes, llm[q].shape)])

\* run_pipeline(original_query, base_qs, follow_qs, rid), with the search
\* responses (one per missing question), the analyzer completions and the
\* synthesis completion it receives.
run_pipeline(base_qs, follow_qs, rid, responses, llm, answer) ==
    LET map == SubQMap(rid)
        all == AllQuestions(base_qs, follow_qs)
        cachedQs == CachedQuestions(map, all)
        missing == MissingQuestions(map, all)
        cached == [k \in 1..Len(cachedQs) |->
                     [question |-> cachedQs[k],
                      data |-> CachedEvidence(EvidenceRows(map[cachedQs[k]], "depth"))]]
        fresh == [k \in 1..Len(missing) |->
                     [question |-> missing[k], data |-> TavilyEntry(responses[missing[k]])]]
        rows == Flatten([k \in 1..Len(fresh) |->
                     FreshRows(MapGet(map, fresh[k].question), fresh[k].question, fresh[k].data)])
        an == Analyze(cachedQs \o missing, llm,
                      [table |-> sub_question_summaries, analyzed |-> <<>>, calls |-> <<>>,
                       shapes |-> <<>>])
    IN [searched |-> missing,
        cached |-> cached,
        results |-> search_results \o rows,
        summaries |-> an.table,
        analyzed |-> an.analyzed,
        summary_calls |-> an.calls,
        summary_shapes |-> an.shapes,
        final_answer |-> answer]

\* ------------------------------------------------------------------------
\* pipeline.py: ResearchPipeline.run, lines 21-32 (decomposition, locals)
\* ------------------------------------------------------------------------
Decompose(q, c, d) ==
    /\ pc \in {"idle", "done"}
    /\ q \in Queries(profile)
    /\ c \in ClassOutcomes(profile)
    /\ d \in DecompOutcomes(profile)
    /\ invocations < InvocationLimit(profile)
    /\ LET r == research_decomposition_pipeline(q, c, d)
       IN /\ research_runs' = r.runs
          /\ sub_questions' = r.subs
          /\ query' = q
          /\ run_id' = r.run_id
          /\ base_sub_questions' = r.sub_questions
          /\ returned' = IF q \in DOMAIN returned THEN returned
                         ELSE [k \in DOMAIN returned \cup {q} |->
                                 IF k = q THEN [run_id |-> r.run_id,
                                                sub_questions |-> r.sub_questions]
                                 ELSE returned[k]]
          /\ hist' = [fresh |-> ~r.hit, passes |-> <<>>,
                       evals_before |-> Len(judge_evaluations),
                       resumed |-> obs.step = "crash" /\ obs.crash_query = q]
          /\ obs' = [NoObs EXCEPT !.step = "decompose", !.cache_hit = r.hit,
                                  !.classify_calls = r.classify_calls,
                                  !.decompose_calls = r.decompose_calls,
                                  !.class_outcome = IF r.hit THEN "" ELSE c.kind,
                                  !.decomp_ok = ~r.hit /\ d.ok]
    /\ follow_up_questions' = <<>>
    /\ final_answer' = Null
    /\ judge_result' = Null
    /\ pass_idx' = 0
    /\ pc' = "research"
    /\ invocations' = invocations + 1
    /\ UNCHANGED conc
    /\ UNCHANGED <<profile, search_results, sub_question_summaries, judge_evaluations>>

PassQuestions_Both(idx, base, follow) == [base_qs |-> base, follow_qs |-> follow]

\* ResearchPipeline.run, lines 38-46: the question set of a pass
PassQuestions(idx, base, follow) ==
    IF idx = 0 THEN [base_qs |-> base, follow_qs |-> <<>>]
    ELSE [base_qs |-> <<>>, follow_qs |-> follow]

\* Every outcome of run_pipeline for the question set of a pass: one per
\* choice of search responses, analyzer completions and synthesis answer.
GatherOutcomes(qs, Resp) ==
    LET all == AllQuestions(qs.base_qs, qs.follow_qs)
    IN { [base_qs |-> qs.base_qs, follow_qs |-> qs.follow_qs] @@
         run_pipeline(qs.base_qs, qs.follow_qs, run_id, responses, llm, answer) :
            responses \in Resp,
            llm \in [NeedsSummary(all) -> SummaryResponses(profile)],
            answer \in Answers(profile) }

\* The questions the gather of the pass under way sends to tavily_search.
PassMissing(qs) ==
    MissingQuestions(SubQMap(run_id), AllQuestions(qs.base_qs, qs.follow_qs))

\* Every outcome of the gather of a pass, over what the search calls return.
PassOutcomes(qs) ==
    GatherOutcomes(qs, [Range(PassMissing(qs)) -> SearchResponses(profile)])

\* ResearchPipeline.run, lines 52-57: run_pipeline returned r; its rows are
\* committed and the answer is the candidate final answer.
CompletePass(r) ==
    /\ search_results' = r.results
    /\ sub_question_summaries' = r.summaries
    /\ final_answer' = Some(r.final_answer)
    /\ hist' = [hist EXCEPT !.passes = Append(@,
                   [idx |-> pass_idx, base_qs |-> r.base_qs, follow_qs |-> r.follow_qs,
                    searched |-> r.searched, confidence |-> Null])]
    /\ obs' = [NoObs EXCEPT !.step = "research",
                            !.base_qs = r.base_qs, !.follow_qs = r.follow_qs,
                            !.searched = r.searched, !.cached = r.cached,
                            !.summary_calls = r.summary_calls,
                            !.summary_shapes = r.summary_shapes,
                            !.analyzed = r.analyzed,
                            !.synthesis_calls = 1]
    /\ pc' = "judge"
    /\ UNCHANGED <<profile, research_runs, sub_questions, judge_evaluations, query, run_id,
                   base_sub_questions, follow_up_questions, judge_result, pass_idx,
                   invocations, returned>>

\* ResearchPipeline.run, lines 38-57: one pass's research
Research ==
    /\ pc = "research"
    /\ \E r \in PassOutcomes(PassQuestions(pass_idx, base_sub_questions, follow_up_questions)) :
          CompletePass(r)
    /\ UNCHANGED conc

\* tavily_search, lines 87-100: one search call per query is created and
\* all of them are handed to asyncio.gather (none when the gather has no
\* cache miss: run_pipeline line 319).
StartGather ==
    /\ pc = "research"
    /\ searches.phase = "none"
    /\ LET qs == PassQuestions(pass_idx, base_sub_questions, follow_up_questions)
       IN /\ searches' = [phase |-> "searching", pending |-> Range(PassMissing(qs)),
                          returned |-> <<>>]
          /\ obs' = [NoObs EXCEPT !.step = "search", !.searched = PassMissing(qs)]
    /\ UNCHANGED <<profile, db, locals, invocations, returned, hist, resolvers>>

\* One outstanding search call returns its response.
SearchReturns(q, response) ==
    /\ searches.phase = "searching"
    /\ q \in searches.pending
    /\ response \in SearchResponses(profile)
    /\ searches' = [searches EXCEPT !.pending = @ \ {q},
                                    !.returned = (q :> response) @@ @]
    /\ obs' = [NoObs EXCEPT !.step = "search"]
    /\ UNCHANGED <<profile, db, locals, invocations, returned, hist, resolvers>>

Joined_FirstCompleted(s) == s.returned # <<>>

\* await asyncio.gather(...), line 98: resumes when every call has returned
Joined(s) == s.pending = {}

\* zip(queries, responses), line 104: the response of each query
GatherResponses(missing, got) ==
    [q \in Range(missing) |-> IF q \in DOMAIN got THEN got[q] ELSE <<>>]

\* run_pipeline from the return of tavily_search on (lines 322-394): the
\* rows of the fresh results, the analysis, the synthesis.
FinishGather ==
    /\ pc = "research"
    /\ searches.phase = "searching"
    /\ Joined(searches)
    /\ LET qs == PassQuestions(pass_idx, base_sub_questions, follow_up_questions)
       IN \E r \in GatherOutcomes(qs, {GatherResponses(PassMissing(qs), searches.returned)}) :
             CompletePass(r)
    /\ searches' = NoSearches
    /\ UNCHANGED resolvers

GatherFailed_KeepsReturned(results, map, missing, got) ==
    LET done == SelectSeq(missing, LAMBDA q : q \in DOMAIN got)
    IN results \o Flatten([k \in 1..Len(done) |->
                    FreshRows(MapGet(map, done[k]), done[k], TavilyEntry(got[done[k]]))])

\* The search_results table after a gather whose asyncio.gather raised
\* (line 98): the exception leaves tavily_search and run_pipeline before
\* the INSERTs of lines 328-371, so the responses already received (got)
\* are dropped with the frame.
GatherFailed(results, map, missing, got) == results

\* One outstanding search call of the batch raises: asyncio.gather (no
\* return_exceptions) raises it into tavily_search at once; neither
\* run_pipeline nor run() catches it and the invocation ends.  Followed
\* while a further invocation can start.
SearchRaises(q) ==
    /\ pc = "research"
    /\ searches.phase = "searching"
    /\ q \in searches.pending
    /\ invocations < InvocationLimit(profile)
    /\ LET qs == PassQuestions(pass_idx, base_sub_questions, follow_up_questions)
       IN /\ search_results' = GatherFailed(search_results, SubQMap(run_id),
                                            PassMissing(qs), searches.returned)
          /\ obs' = [NoObs EXCEPT !.step = "crash", !.crash_query = query,
                                  !.crash_run_id = run_id,
                                  !.crash_cause = "search_error",
                                  !.searched = PassMissing(qs),
                                  !.search_returned = searches.returned]
    /\ searches' = NoSearches
    /\ hist' = NoHist
    /\ pc' = "idle"
    /\ query' = ""
    /\ run_id' = 0
    /\ base_sub_questions' = <<>>
    /\ follow_up_questions' = <<>>
    /\ final_answer' = Null
    /\ judge_result' = Null
    /\ pass_idx' = 0
    /\ UNCHANGED <<profile, research_runs, sub_questions, sub_question_summaries,
                   judge_evaluations, invocations, returned, resolvers>>

HasNextPass_Unbounded(idx) == TRUE

ThresholdMet_Strict(confidence) == confidence > CONFIDENCE_THRESHOLD

\* ResearchPipeline.run, line 73: the termination test
ThresholdMet(confidence) == confidence >= CONFIDENCE_THRESHOLD

\* for pass_idx in range(MAX_PASSES): is there a pass after pass idx
HasNextPass(idx) == idx + 1 < MAX_PASSES

MergeFollowUps_NoFilter(current, recommended) == current \o recommended

\* ResearchPipeline.run, lines 78-84: the follow-up merge
MergeFollowUps(current, recommended) ==
    current \o SelectSeq(recommended, LAMBDA q : q \notin Range(current))

FollowUpsAfter_AlwaysMerge(confidence, current, recommended) ==
    MergeFollowUps(current, recommended)

\* ResearchPipeline.run, lines 73-84: the break comes before the merge
FollowUpsAfter(confidence, current, recommended) ==
    IF ThresholdMet(confidence) THEN current
    ELSE MergeFollowUps(current, recommended)

JudgeInput_BaseOnly(base, follow) == base

\* ResearchPipeline.run, line 64: the sub-question list handed to the judge
JudgeInput(base, follow) == base \o follow

run_judge_OncePerRun(table, rid, result) ==
    IF \E i \in 1..Len(table) : table[i].research_run_id = rid THEN table
    ELSE Append(table, JudgeRow(rid, result))

\* run_judge, lines 82-107: the evaluation is inserted unconditionally
run_judge(table, rid, result) == Append(table, JudgeRow(rid, result))

\* ResearchPipeline.run, lines 59-84 with run_judge: judge the pass's answer,
\* persist the evaluation, then stop or merge the follow-ups and go on.
Judge(out) ==
    /\ pc = "judge"
    /\ out \in JudgeOutputs(profile)
    /\ judge_evaluations' = run_judge(judge_evaluations, run_id, out)
    /\ judge_result' = Some(out)
    /\ hist' = [hist EXCEPT !.passes[Len(hist.passes)].confidence = Some(out.confidence_score)]
    /\ obs' = [NoObs EXCEPT !.step = "judge", !.judge_calls = 1,
                            !.judge_input = JudgeInput(base_sub_questions, follow_up_questions)]
    /\ follow_up_questions' = FollowUpsAfter(out.confidence_score, follow_up_questions,
                                             out.recommended_follow_up)
    /\ IF ThresholdMet(out.confidence_score)
       THEN /\ pc' = "save"
            /\ UNCHANGED pass_idx
       ELSE IF HasNextPass(pass_idx)
            THEN pc' = "research" /\ pass_idx' = pass_idx + 1
            ELSE pc' = "save" /\ UNCHANGED pass_idx
    /\ UNCHANGED conc
    /\ UNCHANGED <<profile, research_runs, sub_questions, search_results,
                   sub_question_summaries, query, run_id, base_sub_questions, final_answer, invocations, returned>>

\* UPDATE research_runs SET final_answer = ? WHERE id = ?
UpdateFinalAnswer(runs, rid, answer) ==
    [i \in 1..Len(runs) |->
        IF runs[i].id = rid THEN [runs[i] EXCEPT !.final_answer = answer] ELSE runs[i]]

\* ResearchPipeline.run, lines 86-95: save the final answer
Save ==
    /\ pc = "save"
    /\ research_runs' = IF Truthy(final_answer)
                        THEN UpdateFinalAnswer(research_runs, run_id, final_answer)
                        ELSE research_runs
    /\ obs' = [NoObs EXCEPT !.step = "save", !.wrote_final = Truthy(final_answer)]
    /\ pc' = "done"
    /\ UNCHANGED conc
    /\ UNCHANGED <<profile, sub_questions, search_results, sub_question_summaries,
                   judge_evaluations, query, run_id, base_sub_questions, follow_up_questions, final_answer,
                   judge_result, pass_idx, invocations, returned, hist>>

\* What a gather that dies part-way leaves in the store: nothing, or the
\* evidence rows (committed together, query_search.py line 371) with the
\* first summary rows of the analysis (each committed on its own, line 220).
CrashPoints(r) ==
    { [results |-> search_results, summaries |-> sub_question_summaries] }
    \cup
    { [results |-> r.results, summaries |-> SubSeq(r.summaries, 1, n)] :
        n \in Len(sub_question_summaries)..Len(r.summaries) }

\* The invocation dies (an uncaught exception of a call, or the process is
\* killed) after the resolver returned: the locals of run() are lost, the
\* committed rows stay.  Followed while a further invocation can start.
Crash ==
    /\ pc \in {"research", "judge", "save"}
    /\ invocations < InvocationLimit(profile)
    /\ \/ /\ pc = "research"
          /\ \E r \in PassOutcomes(PassQuestions(pass_idx, base_sub_questions,
                                                 follow_up_questions)) :
                \E p \in CrashPoints(r) :
                   /\ search_results' = p.results
                   /\ sub_question_summaries' = p.summaries
          /\ UNCHANGED <<research_runs, judge_evaluations>>
       \/ /\ pc = "judge"
          /\ \E out \in JudgeOutputs(profile) :
                judge_evaluations' \in {judge_evaluations,
                                        run_judge(judge_evaluations, run_id, out)}
          /\ UNCHANGED <<research_runs, search_results, sub_question_summaries>>
       \/ /\ pc = "save"
          /\ research_runs' \in {research_runs,
                                  IF Truthy(final_answer)
                                  THEN UpdateFinalAnswer(research_runs, run_id, final_answer)
                                  ELSE research_runs}
          /\ UNCHANGED <<search_results, sub_question_summaries, judge_evaluations>>
    /\ obs' = [NoObs EXCEPT !.step = "crash", !.crash_query = query,
                            !.crash_run_id = run_id, !.crash_cause = "killed"]
    /\ hist' = NoHist
    /\ pc' = "idle"
    /\ query' = ""
    /\ run_id' = 0
    /\ base_sub_questions' = <<>>
    /\ follow_up_questions' = <<>>
    /\ final_answer' = Null
    /\ judge_result' = Null
    /\ pass_idx' = 0
    /\ UNCHANGED conc
    /\ UNCHANGED <<profile, sub_questions, invocations, returned>>

run_judge_failed_Logged(table, rid) ==
    Append(table, [research_run_id |-> rid, confidence_score |-> 0,
                   recommended_follow_up |-> <<>>])

\* run_judge when judge_chain.invoke raises (line 74): the INSERT of lines
\* 86-106 is not reached.
run_judge_failed(table, rid) == table

\* A search call of the gather (query_search.py line 98) or the judge call
\* raises.  Neither run_pipeline nor run() catches it: the invocation ends
\* there with what was committed before.  Followed while a further
\* invocation can start.
Abort ==
    /\ invocations < InvocationLimit(profile)
    /\ \/ /\ pc = "research"
          /\ LET qs == PassQuestions(pass_idx, base_sub_questions, follow_up_questions)
             IN MissingQuestions(SubQMap(run_id),
                                 AllQuestions(qs.base_qs, qs.follow_qs)) # <<>>
          /\ obs' = [NoObs EXCEPT !.step = "crash", !.crash_query = query,
                                  !.crash_run_id = run_id,
                                  !.crash_cause = "search_error"]
          /\ UNCHANGED judge_evaluations
       \/ /\ pc = "judge"
          /\ judge_evaluations' = run_judge_failed(judge_evaluations, run_id)
          /\ obs' = [NoObs EXCEPT !.step = "crash", !.crash_query = query,
                                  !.crash_run_id = run_id,
                                  !.crash_cause = "judge_error"]
    /\ hist' = NoHist
    /\ pc' = "idle"
    /\ query' = ""
    /\ run_id' = 0
    /\ base_sub_questions' = <<>>
    /\ follow_up_questions' = <<>>
    /\ final_answer' = Null
    /\ judge_result' = Null
    /\ pass_idx' = 0
    /\ UNCHANGED conc
    /\ UNCHANGED <<profile, research_runs, sub_questions, search_results,
                   sub_question_summaries, invocations, returned>>

\* The state after construction: empty tables, no invocation under way.
InitState ==
    /\ research_runs = <<>>
    /\ sub_questions = <<>>
    /\ search_results = <<>>
    /\ sub_question_summaries = <<>>
    /\ judge_evaluations = <<>>
    /\ pc = "idle"
    /\ query = ""
    /\ run_id = 0
    /\ base_sub_questions = <<>>
    /\ follow_up_questions = <<>>
    /\ final_answer = Null
    /\ judge_result = Null
    /\ pass_idx = 0
    /\ invocations = 0
    /\ returned = <<>>
    /\ hist = NoHist
    /\ obs = NoObs
    /\ searches = NoSearches
    /\ resolvers = NoResolvers

Init ==
    /\ profile \in Profiles
    /\ InitState

FanoutInit ==
    /\ profile = "fanout"
    /\ InitState

\* The steps of run() when no call fails fatally.
Run ==
    \/ \E q \in Queries(profile), c \in ClassOutcomes(profile), d \in DecompOutcomes(profile) :
          Decompose(q, c, d)
    \/ Research
    \/ \E out \in JudgeOutputs(profile) : Judge(out)
    \/ Save

Next ==
    \/ Run
    \/ Crash
    \/ Abort

Spec == Init /\ [][Next]_vars

\* run() with the gather of each pass taken call by call.
FanoutNext ==
    \/ \E q \in Queries(profile), c \in ClassOutcomes(profile), d \in DecompOutcomes(profile) :
          Decompose(q, c, d)
    \/ StartGather
    \/ \E q \in searches.pending, response \in SearchResponses(profile) :
          SearchReturns(q, response)
    \/ FinishGather
    \/ \E out \in JudgeOutputs(profile) : Judge(out)
    \/ Save

FanoutSpec == FanoutInit /\ [][FanoutNext]_vars

\* run() with the gather taken call by call, each call returning or raising.
BatchNext ==
    \/ FanoutNext
    \/ \E q \in searches.pending : SearchRaises(q)

BatchSpec == FanoutInit /\ [][BatchNext]_vars

\* research_decomposition_pipeline, lines 153-192, by caller p: the lookup
\* of the latest run with the query text.  A hit returns the cached run
\* and its sub-questions; a miss leaves the caller before the
\* classification and decomposition calls.
Lookup(p, q) ==
    /\ resolvers[p].phase \in {"idle", "returned"}
    /\ resolvers[p].calls < InvocationLimit(profile)
    /\ q \in Queries(profile)
    /\ resolvers' =
          [resolvers EXCEPT ![p] =
              IF CachedRun(q) # Null
              THEN [phase |-> "returned", query |-> q,
                    run_id |-> ResolverHit(CachedRun(q)[1]).run_id,
                    hit |-> TRUE, calls |-> @.calls + 1]
              ELSE [phase |-> "deciding", query |-> q, run_id |-> 0,
                    hit |-> FALSE, calls |-> @.calls + 1]]
    /\ UNCHANGED <<profile, db, locals, invocations, returned, hist, obs, searches>>

CommitMiss_Recheck(q, c, d) == research_decomposition_pipeline(q, c, d)

\* The miss branch as the caller runs it after its lookup: the INSERTs of
\* lines 255-288 are not preceded by a second lookup.
CommitMiss(q, c, d) == ResolverMiss(q, c, d)

\* research_decomposition_pipeline, lines 199-296, by caller p: the
\* classification and decomposition calls returned; the run and its
\* sub-questions are inserted and committed.
Commit(p, c, d) ==
    /\ resolvers[p].phase = "deciding"
    /\ c \in ClassOutcomes(profile)
    /\ d \in DecompOutcomes(profile)
    /\ LET r == CommitMiss(resolvers[p].query, c, d)
       IN /\ research_runs' = r.runs
          /\ sub_questions' = r.subs
          /\ resolvers' = [resolvers EXCEPT ![p].phase = "returned",
                                            ![p].run_id = r.run_id]
    /\ UNCHANGED <<profile, search_results, sub_question_summaries, judge_evaluations,
                   locals, invocations, returned, hist, obs, searches>>

RaceInit ==
    /\ profile = "race"
    /\ InitState

\* Two callers of the resolver, each step of one of them.
RaceNext ==
    \/ \E p \in Callers, q \in Queries(profile) : Lookup(p, q)
    \/ \E p \in Callers, c \in ClassOutcomes(profile), d \in DecompOutcomes(profile) :
          Commit(p, c, d)

RaceSpec == RaceInit /\ [][RaceNext]_vars

\* Research can be taken whenever a pass is due: run_pipeline has an outcome
\* for every question set.
ResearchPossible ==
    pc = "research" =>
        PassOutcomes(PassQuestions(pass_idx, base_sub_questions, follow_up_questions)) # {}

\* No invocation dies and the external calls return: every step of an
\* invocation that is under way is eventually taken.  Research is enabled
\* exactly when pc = "research" (ResearchPossible) and leaves that position,
\* so its weak fairness is stated on the position.
FairSpec ==
    /\ Init /\ [][Run]_vars
    /\ []<>(pc # "research")
    /\ WF_vars(\E out \in JudgeOutputs(profile) : Judge(out))
    /\ WF_vars(Save)

\* ------------------------------------------------------------------------
\* Properties
\* ------------------------------------------------------------------------
IsPrefix(s, t) == Len(s) <= Len(t) /\ SubSeq(t, 1, Len(s)) = s

NoDuplicates(s) == \A i, j \in 1..Len(s) : s[i] = s[j] => i = j

\* The research_runs row of a run id.
RunOf(rid) == research_runs[CHOOSE i \in 1..Len(research_runs) : research_runs[i].id = rid]

LastPass == hist.passes[Len(hist.passes)]

\* C1 - Bounded termination: whatever the judge answers (also when the
\* confidence never reaches the threshold) the pass loop runs at most
\* MAX_PASSES iterations, and once a pass is under way the end of the loop
\* (the save of the final answer) is reached, provided every call returns.
C1_BoundedTermination ==
    /\ [](Len(hist.passes) <= 3 /\ pass_idx < 3)
    /\ (pc \in {"research", "judge"}) ~> (pc = "save")

\* C1 witness: three passes all judged below the threshold, loop ended.
C1_Witness ==
    /\ pc = "save"
    /\ Len(hist.passes) = 3
    /\ \A i \in 1..3 : hist.passes[i].confidence = Some(60)

\* A step of the pass loop of the invocation under way (the invocation
\* goes on after it).
InInvocation == pc \in {"research", "judge", "save"} /\ pc' # "idle"

\* C2 - No duplicate follow-ups: whatever the judge recommends (also a
\* recommendation list that names one question twice) follow_up_questions
\* holds each question text at most once, and its size never decreases
\* from one pass to the next.
C2_NoDuplicateFollowUps ==
    /\ [](NoDuplicates(follow_up_questions))
    /\ [][InInvocation => Len(follow_up_questions') >= Len(follow_up_questions)]_vars

\* What the first resolver call with a query text returned.
FirstResult(q) == returned[q]

\* C3 - Idempotent decomposition: a resolver call with a query text that an
\* earlier call already resolved returns the run id and the ordered
\* sub-question list of that first call, makes no classification or
\* decomposition completion call, and adds no research_runs or
\* sub_questions row.
C3_IdempotentDecomposition ==
    [][(pc' = "research" /\ pc \in {"idle", "done"} /\ query' \in DOMAIN returned)
         => /\ run_id' = FirstResult(query').run_id
            /\ base_sub_questions' = FirstResult(query').sub_questions
            /\ obs'.classify_calls = 0
            /\ obs'.decompose_calls = 0
            /\ research_runs' = research_runs
            /\ sub_questions' = sub_questions]_vars

\* C3 witness: a second call with the same query returned a cached run with
\* two sub-questions.
C3_Witness ==
    /\ obs.step = "decompose"
    /\ invocations = 2
    /\ query \in DOMAIN returned
    /\ run_id = 1
    /\ Len(research_runs) = 1
    /\ base_sub_questions = <<"s1", "s2">>

\* The stored depth rows of a sub_questions row, in insertion order.
StoredDepthRows(sqid) ==
    SelectSeq(search_results,
              LAMBDA r : r.sub_question_id = sqid /\ r.search_type = "depth")

\* The sub_questions rows of the run under way with a given text that have
\* stored depth evidence.
RowsWithEvidence(q) ==
    {i \in 1..Len(sub_questions) :
        /\ sub_questions[i].research_run_id = run_id
        /\ sub_questions[i].sub_question = q
        /\ StoredDepthRows(i) # <<>>}

StoredUrls(sqid) ==
    {r.url[1] : r \in {x \in Range(StoredDepthRows(sqid)) : x.url # Null}}

StoredSnippets(sqid) ==
    LET rows == SelectSeq(StoredDepthRows(sqid), LAMBDA r : r.snippet # Null)
    IN [k \in 1..Len(rows) |-> rows[k].snippet[1]]

\* C4 - Cache-exact evidence reuse: stored rows are never removed, and a
\* gather that includes a question whose sub_questions row of the run has
\* a stored depth row issues no search call for it and returns the
\* evidence held by the stored rows.
C4_CacheExactReuse ==
    [][/\ IsPrefix(search_results, search_results')
       /\ (pc = "research" /\ pc' = "judge") =>
            \A q \in Range(obs'.base_qs \o obs'.follow_qs) :
              \A i \in RowsWithEvidence(q) :
                 /\ q \notin Range(obs'.searched)
                 /\ \E k \in 1..Len(obs'.cached) :
                       /\ obs'.cached[k].question = q
                       /\ obs'.cached[k].data.urls = StoredUrls(i)
                       /\ obs'.cached[k].data.snippets = StoredSnippets(i)]_vars

\* C4 witness: a gather of a later invocation that reuses the stored
\* evidence of one question and searches another.
C4_Witness ==
    /\ obs.step = "research"
    /\ invocations = 2
    /\ obs.cached # <<>>
    /\ obs.searched # <<>>
    /\ obs.cached[1].data.urls # {}

\* C5 - Threshold short-circuit: when the first pass is judged at or above
\* 0.85 the invocation executes exactly one pass (one gather with its
\* synthesis, one judge call) and never gathers a follow-up question.
C5_ThresholdShortCircuit ==
    (hist.passes # <<>> /\ hist.passes[1].confidence # Null
        /\ hist.passes[1].confidence[1] >= 85)
    => /\ Len(hist.passes) = 1
       /\ pc \in {"save", "done"}
       /\ pass_idx = 0
       /\ hist.passes[1].follow_qs = <<>>
       /\ hist.passes[1].base_qs = base_sub_questions

\* C5 witness: a finished invocation whose first evaluation scored exactly
\* the threshold.
C5_Witness ==
    /\ pc = "done"
    /\ hist.passes # <<>>
    /\ hist.passes[1].confidence = Some(85)

Recommended(result) == result[1].recommended_follow_up

RECURSIVE NotAlreadyPresent(_, _)
\* The entries of a recommendation list that a follow-up list lacks, in
\* the order the judge listed them.
NotAlreadyPresent(rec, present) ==
    IF rec = <<>> THEN <<>>
    ELSE IF \E k \in 1..Len(present) : present[k] = Head(rec)
         THEN NotAlreadyPresent(Tail(rec), present)
         ELSE <<Head(rec)>> \o NotAlreadyPresent(Tail(rec), present)

\* C7 - Follow-up merge: after a pass judged below the threshold the new
\* follow-up list is the previous list followed by the recommendations not
\* already present: every recommended text is a member, the previous
\* questions keep their places, and the new ones come in the judge's order.
C7_MergeKeepsAllInOrder ==
    [][(pc = "judge" /\ pc' \in {"research", "save"}
          /\ judge_result'[1].confidence_score < 85)
         => /\ IsPrefix(follow_up_questions, follow_up_questions')
            /\ SubSeq(follow_up_questions', Len(follow_up_questions) + 1,
                      Len(follow_up_questions'))
                 = NotAlreadyPresent(Recommended(judge_result'), follow_up_questions)
            /\ \A k \in 1..Len(Recommended(judge_result')) :
                  \E m \in 1..Len(follow_up_questions') :
                     follow_up_questions'[m] = Recommended(judge_result')[k]]_vars

\* C7 witness: a merge that kept f1, f2 and added only the new f3 of the
\* recommendation <<f3, f1>>.
C7_Witness ==
    /\ obs.step = "judge"
    /\ judge_result # Null
    /\ Recommended(judge_result) = <<"f3", "f1">>
    /\ follow_up_questions = <<"f1", "f2", "f3">>

\* C8 - Final answer persistence: once the invocation has saved, the run's
\* research_runs.final_answer is the answer synthesized in the last
\* executed pass, whatever that answer is (also the empty text).
C8_FinalAnswerPersisted ==
    pc = "done" => RunOf(run_id).final_answer = final_answer

\* The judge_evaluations rows of a run, in insertion order.
EvaluationsOf(rid) == SelectSeq(judge_evaluations, LAMBDA r : r.research_run_id = rid)

\* The two-pass scenario: a fresh query with 3 base sub-questions, first
\* evaluation 0.6 with two follow-ups, second evaluation 0.9.
TwoPassScenario ==
    /\ hist.fresh
    /\ Len(base_sub_questions) = 3
    /\ Len(hist.passes) >= 2
    /\ hist.passes[1].confidence = Some(60)
    /\ hist.passes[2].confidence = Some(90)
    /\ Len(EvaluationsOf(run_id)) >= 1
    /\ Len(EvaluationsOf(run_id)[1].recommended_follow_up) = 2
    /\ NoDuplicates(EvaluationsOf(run_id)[1].recommended_follow_up)

\* What the scenario promises: pass 2 was handed only the two follow-ups,
\* the loop stopped after it, and exactly two evaluations are stored.
TwoPassOutcome ==
    /\ Len(hist.passes) = 2
    /\ hist.passes[2].base_qs = <<>>
    /\ hist.passes[2].follow_qs = EvaluationsOf(run_id)[1].recommended_follow_up
    /\ Range(hist.passes[2].searched) \subseteq
          Range(EvaluationsOf(run_id)[1].recommended_follow_up)
    /\ Len(EvaluationsOf(run_id)) = 2

\* C9 - Two-pass scenario: in the scenario the second pass researches only
\* the 2 follow-ups, the loop stops after the second pass, the run's
\* final_answer is the second pass's answer and exactly 2 judge_evaluations
\* rows exist for the run.
C9_TwoPassScenario ==
    (pc = "done" /\ TwoPassScenario)
    => /\ TwoPassOutcome
       /\ RunOf(run_id).final_answer = final_answer

\* The positions of the run's sub_questions rows.
PositionsOf(rid) ==
    {sub_questions[i].position :
        i \in {k \in 1..Len(sub_questions) : sub_questions[k].research_run_id = rid}}

\* C10 - Follow-ups become SubQuestions: when a pass is about to research
\* the follow-ups, each of them has a sub_questions row of the run at a
\* position after the positions of the base questions.
C10_FollowUpsHaveRows ==
    (pc = "research" /\ pass_idx > 0)
    => \A k \in 1..Len(follow_up_questions) :
          \E i \in 1..Len(sub_questions) :
             /\ sub_questions[i].research_run_id = run_id
             /\ sub_questions[i].sub_question = follow_up_questions[k]
             /\ sub_questions[i].position > Len(base_sub_questions)

\* The ids of the sub_questions rows of the run under way with a text.
RunRowsOf(q) ==
    {i \in 1..Len(sub_questions) :
        /\ sub_questions[i].research_run_id = run_id
        /\ sub_questions[i].sub_question = q}

\* The questions the last gather was handed.
GatherQuestions == Range(obs.base_qs \o obs.follow_qs)

\* C11 - Unknown-question skip: a question handed to the gather that has no
\* sub_questions row of the run is skipped: no search call is issued for it
\* and no search_results row is written for it.
C11_UnknownQuestionSkipped ==
    obs.step = "research" =>
        \A q \in GatherQuestions :
            RunRowsOf(q) = {} =>
               /\ q \notin Range(obs.searched)
               /\ \A k \in 1..Len(search_results) :
                     search_results[k].search_query = q =>
                        sub_questions[search_results[k].sub_question_id].research_run_id
                            # run_id

\* The summary rows stored for the sub_questions rows with a text.
SummaryRowsFor(q) ==
    {m \in 1..Len(sub_question_summaries) :
        sub_questions[sub_question_summaries[m].sub_question_id].sub_question = q}

\* C12 - At most one summary per sub-question, never recomputed: each
\* sub-question id has at most one sub_question_summaries row; a stored row
\* never changes; a gather that summarizes a question with a stored summary
\* gets the stored summary and makes no analyzer completion call for it,
\* whatever evidence the gather holds for the question.
C12_OneSummaryNeverRecomputed ==
    /\ [](\A m, n \in 1..Len(sub_question_summaries) :
             sub_question_summaries[m].sub_question_id
               = sub_question_summaries[n].sub_question_id => m = n)
    /\ [][/\ IsPrefix(sub_question_summaries, sub_question_summaries')
          /\ (pc = "research" /\ pc' = "judge") =>
                \A k \in 1..Len(obs'.analyzed) :
                   \A m \in SummaryRowsFor(obs'.analyzed[k].question) :
                      /\ obs'.analyzed[k].summary
                           = JsonLoads(sub_question_summaries[m].summary_json)
                      /\ obs'.analyzed[k].question \notin Range(obs'.summary_calls)]_vars

\* C12 witness: a gather of a second invocation searched a question anew,
\* stored evidence for it, and summarized it from the stored summary of the
\* first invocation (computed when the question had no evidence) without a
\* completion call.
C12_Witness ==
    /\ obs.step = "research"
    /\ invocations = 2
    /\ Len(hist.passes) = 1
    /\ obs.summary_calls = <<>>
    /\ \E k \in 1..Len(obs.analyzed) :
          /\ obs.analyzed[k].question \in Range(obs.searched)
          /\ \E i \in RunRowsOf(obs.analyzed[k].question) : StoredDepthRows(i) # <<>>
          /\ SummaryRowsFor(obs.analyzed[k].question) # {}

\* The sub_questions rows of a run, in insertion order.
SubQuestionRowsOf(rid) ==
    SelectSeq(sub_questions, LAMBDA r : r.research_run_id = rid)

\* C13 - Decomposition fallback: on a cache miss, a failed classification
\* call stores the category "ambiguous" and the resolver goes on; a failed
\* decomposition call gives exactly the list [original query] with the
\* default intent, relationship and difficulty; in both cases the
\* research_runs row and the sub_questions rows of the returned list are
\* persisted and the resolver returns.
C13_DecompositionFallback ==
    (obs.step = "decompose" /\ ~obs.cache_hit
        /\ (obs.class_outcome # "ok" \/ ~obs.decomp_ok))
    => /\ pc = "research"
       /\ \E i \in 1..Len(research_runs) :
             /\ research_runs[i].id = run_id
             /\ research_runs[i].original_query = query
             /\ obs.class_outcome # "ok" => research_runs[i].classification = "ambiguous"
             /\ ~obs.decomp_ok =>
                   /\ base_sub_questions = <<query>>
                   /\ research_runs[i].primary_intent = "Answer the query directly"
                   /\ research_runs[i].relationship = "parallel"
                   /\ research_runs[i].difficulty_level = "moderate"
       /\ SubQuestionRowsOf(run_id) =
             [k \in 1..Len(base_sub_questions) |->
                 [research_run_id |-> run_id, sub_question |-> base_sub_questions[k],
                  position |-> k]]

\* C13 witness: the classification call failed and the decomposition call
\* succeeded with two sub-questions.
C13_Witness ==
    /\ obs.step = "decompose"
    /\ ~obs.cache_hit
    /\ obs.class_outcome = "llm_fail"
    /\ obs.decomp_ok
    /\ base_sub_questions = <<"s1", "s2">>
    /\ RunOf(run_id).classification = "ambiguous"

\* C14 - Every run has a sub-question: whatever the classification and
\* decomposition calls return (also an empty sub-question list), every
\* persisted run has at least one sub_questions row and the list the
\* resolver returns is non-empty, on the first call and on cached calls.
C14_EveryRunHasSubQuestion ==
    /\ \A i \in 1..Len(research_runs) : SubQuestionRowsOf(research_runs[i].id) # <<>>
    /\ obs.step = "decompose" => base_sub_questions # <<>>

\* The judge_evaluations rows added since the invocation started.
EvaluationsAdded == Len(judge_evaluations) - hist.evals_before

\* A step that judges a pass and goes on (to the next pass or to the save).
JudgeStep == pc = "judge" /\ pc' \in {"research", "save"}

\* C15 - One evaluation per pass: each executed pass calls the judge once
\* and inserts one judge_evaluations row for the run, also when the run
\* already has evaluations; no other step of the pass loop inserts one;
\* stored rows are never modified; an invocation that reaches the save has
\* added as many rows as passes it executed.
C15_OneEvaluationPerPass ==
    /\ [][/\ IsPrefix(judge_evaluations, judge_evaluations')
          /\ JudgeStep =>
                /\ obs'.judge_calls = 1
                /\ Len(judge_evaluations') = Len(judge_evaluations) + 1
                /\ judge_evaluations'[Len(judge_evaluations')].research_run_id = run_id
                /\ judge_evaluations'[Len(judge_evaluations')].confidence_score
                      = judge_result'[1].confidence_score
          /\ pc # "judge" => judge_evaluations' = judge_evaluations]_vars
    /\ [](pc \in {"save", "done"} => EvaluationsAdded = Len(hist.passes))

\* C15 witness: a second invocation of a run that already had evaluations
\* finished after three passes.
C15_Witness ==
    /\ pc = "done"
    /\ invocations = 2
    /\ hist.evals_before > 0
    /\ Len(hist.passes) = 3
    /\ Len(EvaluationsOf(run_id)) > 3

\* A resolver call that follows a crash, with the query of the invocation
\* that died.
ResumeCall == obs.step = "crash" /\ pc' = "research" /\ query' = obs.crash_query

\* A gather of an invocation that resumed a crashed one.
ResumedGather == hist.resumed /\ pc = "research" /\ pc' = "judge"

\* C16 - Crash resume: when an invocation dies after its run was persisted
\* and the same query is run again, the second invocation gets the same run
\* id (no new run, no new sub_questions row), issues no search call for a
\* sub-question with stored depth evidence, and makes no analyzer
\* completion call for a sub-question with a stored summary.
C16_CrashResume ==
    [][/\ ResumeCall =>
             /\ run_id' = obs.crash_run_id
             /\ research_runs' = research_runs
             /\ sub_questions' = sub_questions
       /\ ResumedGather =>
             \A i \in 1..Len(sub_questions) :
                sub_questions[i].research_run_id = run_id =>
                   /\ StoredDepthRows(i) # <<>> =>
                         sub_questions[i].sub_question \notin Range(obs'.searched)
                   /\ (\E m \in 1..Len(sub_question_summaries) :
                          sub_question_summaries[m].sub_question_id = i) =>
                         sub_questions[i].sub_question \notin Range(obs'.summary_calls)]_vars

\* C16 witness: the first invocation died in the analysis after the
\* evidence of both sub-questions and the summary of the first were
\* committed; the resumed gather searched nothing and summarized only the
\* second.
C16_Witness ==
    /\ hist.resumed
    /\ obs.step = "research"
    /\ Len(hist.passes) = 1
    /\ obs.searched = <<>>
    /\ Len(obs.cached) = 2
    /\ obs.summary_calls = <<"s2">>
    /\ Len(obs.analyzed) = 2

\* The questions of the summary entries the synthesis received.
SynthesisQuestions == [k \in 1..Len(obs.analyzed) |-> obs.analyzed[k].question]

\* C17 - Synthesis covers the pass's questions: in every pass the synthesis
\* call receives exactly one summary entry for each distinct question of
\* the pass's question set (base questions in pass 0, accumulated
\* follow-ups in later passes).
C17_SynthesisCoversPass ==
    obs.step = "research" =>
        /\ obs.synthesis_calls = 1
        /\ Range(SynthesisQuestions) = GatherQuestions
        /\ NoDuplicates(SynthesisQuestions)

\* C18 - No row means never searched: every completed search of a question
\* with a sub_questions row of the run leaves at least one depth row for
\* that row, whatever the scores of the returned items.
C18_NoRowMeansNeverSearched ==
    obs.step = "research" =>
        \A q \in Range(obs.searched) :
            RunRowsOf(q) # {} => \E i \in RunRowsOf(q) : StoredDepthRows(i) # <<>>

\* The (sub-question, search type) pair of a search_results row.
PairOf(row) == <<row.sub_question_id, row.search_type>>

\* C19 - Evidence written once: a step never updates or deletes a
\* search_results row, and the rows it inserts belong to pairs that had no
\* row before the step, so all rows of a pair come from one gather call.
C19_EvidenceWrittenOnce ==
    [][/\ IsPrefix(search_results, search_results')
       /\ \A k \in (Len(search_results) + 1)..Len(search_results') :
             \A j \in 1..Len(search_results) :
                PairOf(search_results[j]) # PairOf(search_results'[k])]_vars

\* C19 witness: a gather of a second invocation reused the stored evidence
\* of one sub-question and stored the evidence of another, searched in both
\* invocations and found without evidence in the first.
C19_Witness ==
    /\ obs.step = "research"
    /\ invocations = 2
    /\ Len(hist.passes) = 1
    /\ Len(obs.cached) = 1
    /\ obs.searched = <<"s2">>
    /\ \E i \in RunRowsOf("s2") : Len(StoredDepthRows(i)) = 3
    /\ \E i \in RunRowsOf("s1") : StoredDepthRows(i) # <<>>

\* C20 - Judge input is cumulative: in every pass the judge receives the
\* base sub-questions followed by the follow-ups accumulated in earlier
\* passes (those the pass's gather was handed), in that order; what the
\* pass's own evaluation recommends is added after the list was judged.
C20_JudgeInputCumulative ==
    [][JudgeStep =>
          /\ obs'.judge_input = base_sub_questions \o LastPass.follow_qs
          /\ LastPass.idx = 0 => obs'.judge_input = base_sub_questions
          /\ Len(obs'.judge_input) = Len(base_sub_questions) + Len(follow_up_questions)
          /\ Len(follow_up_questions') > Len(follow_up_questions) =>
                Len(obs'.judge_input)
                   < Len(base_sub_questions) + Len(follow_up_questions')]_vars

\* C20 witness: the second pass judged the two base questions and the two
\* follow-ups of the first evaluation; its own evaluation added a third.
C20_Witness ==
    /\ obs.step = "judge"
    /\ Len(hist.passes) = 2
    /\ obs.judge_input = <<"s1", "s2", "f1", "f2">>
    /\ follow_up_questions = <<"f1", "f2", "f3">>

\* C21 - Stop leaves the follow-up set unchanged: when a pass is judged at
\* or above the threshold the loop ends at once (the next step is the
\* save), the follow-up list stays as it was before the judge call, also
\* when the evaluation recommends questions the list lacks, and the
\* invocation makes no further gather, synthesis or judge call.
C21_StopLeavesFollowUps ==
    /\ [][(JudgeStep /\ judge_result'[1].confidence_score >= 85)
            => /\ follow_up_questions' = follow_up_questions
               /\ pass_idx' = pass_idx
               /\ pc' = "save"]_vars
    /\ [][(hist.passes # <<>> /\ LastPass.confidence # Null
             /\ LastPass.confidence[1] >= 85 /\ hist' # NoHist /\ pc' # "research")
            => /\ hist'.passes = hist.passes
               /\ obs'.searched = <<>>
               /\ obs'.summary_calls = <<>>
               /\ obs'.synthesis_calls = 0
               /\ obs'.judge_calls = 0]_vars
    /\ [](hist.passes # <<>> /\ LastPass.confidence # Null /\ LastPass.confidence[1] >= 85
            => pc \in {"save", "done"})

\* C21 witness: the second pass was judged 0.9 with a recommendation the
\* follow-up list lacks; the list is still the one of the first evaluation.
C21_Witness ==
    /\ pc = "save"
    /\ Len(hist.passes) = 2
    /\ judge_result # Null
    /\ judge_result[1].confidence_score = 90
    /\ Recommended(judge_result) = <<"f1">>
    /\ follow_up_questions = <<"s1">>

\* A step in which a search call or the judge call of a pass fails.
FatalFailure ==
    /\ pc \in {"research", "judge"}
    /\ obs'.step = "crash"
    /\ obs'.crash_cause \in {"search_error", "judge_error"}

\* C22 - Fatal failures abort without retry: when a search call or the
\* judge call of a pass fails, the invocation ends there: no row is written
\* by the failing step (no judge_evaluations row for the pass, no
\* final_answer), the rows committed before stay, the run's final_answer
\* was not written earlier in the invocation, and no pass, search or judge
\* call follows: the next step is a new resolver call.
C22_FatalFailuresAbort ==
    /\ [][FatalFailure =>
             /\ research_runs' = research_runs
             /\ sub_questions' = sub_questions
             /\ search_results' = search_results
             /\ sub_question_summaries' = sub_question_summaries
             /\ judge_evaluations' = judge_evaluations
             /\ pc' = "idle"
             /\ hist' = NoHist]_vars
    /\ [][(pc \in {"research", "judge"}) => research_runs' = research_runs]_vars
    /\ [][obs.step = "crash" =>
             /\ obs'.step = "decompose"
             /\ obs'.searched = <<>>
             /\ obs'.judge_calls = 0]_vars

\* C22 witness: the judge call of the second pass failed; the evaluation of
\* the first pass and the evidence and summaries gathered so far are stored,
\* the run has no final answer.
C22_Witness ==
    /\ obs.step = "crash"
    /\ obs.crash_cause = "judge_error"
    /\ invocations = 1
    /\ Len(judge_evaluations) = 1
    /\ search_results # <<>>
    /\ sub_question_summaries # <<>>
    /\ \A i \in 1..Len(research_runs) : research_runs[i].final_answer = Null

\* The bullet list that stands for a completion that could not be parsed.
Placeholder == <<"Failed to parse response">>

\* The stored summary of the sub_questions rows with a text is the placeholder.
StoredPlaceholder(table, q) ==
    \E m \in 1..Len(table) :
       /\ sub_questions[table[m].sub_question_id].sub_question = q
       /\ JsonLoads(table[m].summary_json) = Placeholder

\* The summary entry of a question in what the analysis handed on.
EntryOf(analyzed, q) == {k \in 1..Len(analyzed) : analyzed[k].question = q}

PassCacheMisses ==
    {q \in (IF pass_idx = 0 THEN Range(base_sub_questions)
            ELSE Range(follow_up_questions)) : RowsWithEvidence(q) = {}}

\* C24 - Fan-out is joined before the pass proceeds: when the gather starts
\* its searches, one call per cache-miss question is outstanding at once;
\* while any of them is outstanding no search_results row is inserted, no
\* summary is computed or stored and no answer is synthesized, in whatever
\* order the calls return.
C24_FanOutJoined ==
    [][/\ (searches.phase = "none" /\ searches'.phase = "searching") =>
             /\ searches'.pending = PassCacheMisses
             /\ searches'.returned = <<>>
       /\ (searches.phase = "searching" /\ searches.pending # {}) =>
             /\ search_results' = search_results
             /\ sub_question_summaries' = sub_question_summaries
             /\ final_answer' = final_answer
             /\ obs'.summary_calls = <<>>
             /\ obs'.synthesis_calls = 0
             /\ pc' = "research"]_vars

\* C24 witness: of three searches the third and the first have returned
\* (one of them with evidence), the second is outstanding, nothing is stored.
C24_Witness ==
    /\ searches.phase = "searching"
    /\ searches.pending = {"s2"}
    /\ DOMAIN searches.returned = {"s1", "s3"}
    /\ searches.returned["s3"] # <<>>
    /\ search_results = <<>>
    /\ sub_question_summaries = <<>>

RECURSIVE FirstOccurrences(_)
\* A list without its repetitions: each text at the place of its first
\* occurrence.
FirstOccurrences(xs) ==
    IF xs = <<>> THEN <<>>
    ELSE <<Head(xs)>> \o FirstOccurrences(SelectSeq(Tail(xs), LAMBDA x : x # Head(xs)))

\* The question lists a caller may hand the gather directly.
SampleLists ==
    UNION {[1..n -> {"s1", "f1"}] : n \in 0..MaxListLen}

\* C25 - One search call per distinct question: the gather deduplicates its
\* input (base list followed by follow-up list) keeping first occurrences
\* in order, also when a text occurs in both lists; it issues one search
\* call per distinct cache-miss text, in that order, and no two calls carry
\* the same text.
C25_OneSearchPerQuestion ==
    /\ [](\A b \in SampleLists : \A f \in SampleLists :
             /\ AllQuestions(b, f) = FirstOccurrences(b \o f)
             /\ NoDuplicates(AllQuestions(b, f)))
    /\ [][(pc = "research" /\ pc' = "judge") =>
             /\ NoDuplicates(obs'.searched)
             /\ obs'.searched =
                   SelectSeq(FirstOccurrences(obs'.base_qs \o obs'.follow_qs),
                             LAMBDA q : RowsWithEvidence(q) = {})
             /\ Len(obs'.searched) =
                   Cardinality({q \in Range(obs'.base_qs \o obs'.follow_qs) :
                                   RowsWithEvidence(q) = {}})]_vars

\* C25 witness: a follow-up list naming one question twice led to one
\* search call for it, before the one of the other follow-up.
C25_Witness ==
    /\ obs.step = "research"
    /\ obs.follow_qs = <<"f1", "f1", "f2">>
    /\ obs.searched = <<"f1", "f2">>

\* The research_runs rows with a query text, by index.
RunsWithQuery(q) == {i \in 1..Len(research_runs) : research_runs[i].original_query = q}

\* The ids of the stored runs.
RunIds == {research_runs[i].id : i \in 1..Len(research_runs)}

\* Caller p commits the run of a lookup that missed.
CommitsRun(p) == resolvers[p].phase = "deciding" /\ resolvers'[p].phase = "returned"

\* Caller p looks up a query text that has a stored run.
LooksUpStored(p) ==
    /\ resolvers[p].phase \in {"idle", "returned"}
    /\ resolvers'[p].phase # "idle"
    /\ resolvers'[p].calls = resolvers[p].calls + 1
    /\ RunsWithQuery(resolvers'[p].query) # {}

\* C26 - Concurrent same-query race: a caller whose lookup missed creates
\* its own run under a new id when it commits, also when another caller
\* committed a run of the same query text after that lookup, so two runs of
\* one query text are left; run ids stay distinct; every lookup that
\* follows returns one of them and creates nothing.
C26_SameQueryRace ==
    /\ [](\A i, j \in 1..Len(research_runs) :
             research_runs[i].id = research_runs[j].id => i = j)
    /\ [][\A p \in Callers :
             /\ CommitsRun(p) =>
                   /\ Len(research_runs') = Len(research_runs) + 1
                   /\ IsPrefix(research_runs, research_runs')
                   /\ research_runs'[Len(research_runs')].original_query
                         = resolvers[p].query
                   /\ research_runs'[Len(research_runs')].id \notin RunIds
                   /\ resolvers'[p].run_id = research_runs'[Len(research_runs')].id
             /\ LooksUpStored(p) =>
                   /\ resolvers'[p].hit
                   /\ \E i \in RunsWithQuery(resolvers'[p].query) :
                         research_runs[i].id = resolvers'[p].run_id
                   /\ research_runs' = research_runs
                   /\ sub_questions' = sub_questions]_vars

\* C26 witness: both callers looked up "qA" before either committed, each
\* committed a run of its own, and a later call of the first caller was
\* handed the second run.
C26_Witness ==
    /\ Cardinality(RunsWithQuery("qA")) = 2
    /\ Len(research_runs) = 2
    /\ research_runs[1].id # research_runs[2].id
    /\ resolvers[1].phase = "returned"
    /\ resolvers[1].calls = 2
    /\ resolvers[1].hit
    /\ resolvers[1].query = "qA"
    /\ resolvers[1].run_id = research_runs[2].id
    /\ resolvers[2].calls = 1

\* The stored depth rows of a sub-question that carry a url.
StoredUrlRows(sqid) == SelectSeq(StoredDepthRows(sqid), LAMBDA r : r.url # Null)

\* C27 - Score filter and URL deduplication: the stored evidence of every
\* sub-question holds at most one url row and at most one snippet row per
\* distinct accepted url.
C27_OneEntryPerUrl ==
    \A i \in 1..Len(sub_questions) :
        /\ Len(StoredUrlRows(i)) = Cardinality(StoredUrls(i))
        /\ Len(StoredSnippets(i)) <= Cardinality(StoredUrls(i))

\* C28 - Final answer written once: the final_answer of a run is written
\* only by the save after the pass loop, only while it is still null, and a
\* written final_answer is kept as it is, also over later invocations with
\* the same query text.
C28_FinalAnswerWrittenOnce ==
    [][/\ Len(research_runs') >= Len(research_runs)
       /\ \A i \in 1..Len(research_runs) :
             /\ (research_runs[i].final_answer # Null) =>
                   research_runs'[i].final_answer = research_runs[i].final_answer
             /\ (research_runs'[i].final_answer # research_runs[i].final_answer) =>
                   pc = "save"
       /\ (pc = "save" /\ obs'.step = "save" /\ obs'.wrote_final) =>
             RunOf(run_id).final_answer = Null]_vars

\* C29 - Positions are unique and ordered: the sub_questions rows of every
\* run carry the positions 1..n in insertion order, none twice; after a
\* resolver call the row at position i of its run holds the i-th
\* sub-question of the returned (normalized) decomposition; and no step
\* changes or removes a sub_questions row.
C29_PositionsUniqueOrdered ==
    /\ [](\A i \in 1..Len(research_runs) :
             LET rows == SubQuestionRowsOf(research_runs[i].id)
             IN \A k \in 1..Len(rows) : rows[k].position = k)
    /\ [](obs.step = "decompose" =>
             LET rows == SubQuestionRowsOf(run_id)
             IN [k \in 1..Len(rows) |-> rows[k].sub_question] = base_sub_questions)
    /\ [][IsPrefix(sub_questions, sub_questions')]_vars

\* C29 witness: a decomposition with one tagged entry of two keys was
\* stored as two rows, at positions 1 and 2.
C29_Witness ==
    /\ obs.step = "decompose"
    /\ ~obs.cache_hit
    /\ SubQuestionRowsOf(run_id) =
          << [research_run_id |-> run_id, sub_question |-> "[FACTUAL] s1", position |-> 1],
             [research_run_id |-> run_id, sub_question |-> "[SPECULATIVE] s2", position |-> 2] >>

\* C30 - No question is searched in two passes: within one invocation, the
\* questions submitted to the search capability in one pass and those
\* submitted in a later pass have no text in common.
C30_NoQuestionSearchedTwice ==
    \A i, j \in 1..Len(hist.passes) :
        i < j => Range(hist.passes[i].searched) \cap Range(hist.passes[j].searched) = {}

\* C31 - Summaries stay within their run: every summary row a gather of
\* run R writes is stored under a sub_questions row of R, and every summary
\* the gather uses for a question is the one stored under a sub_questions
\* row of R with that text.
C31_SummariesStayInRun ==
    [][(pc = "research" /\ pc' = "judge") =>
          /\ \A m \in (Len(sub_question_summaries) + 1)..Len(sub_question_summaries') :
                sub_questions[sub_question_summaries'[m].sub_question_id].research_run_id
                   = run_id
          /\ \A k \in 1..Len(obs'.analyzed) :
                \E i \in RunRowsOf(obs'.analyzed[k].question) :
                   \E m \in 1..Len(sub_question_summaries') :
                      /\ sub_question_summaries'[m].sub_question_id = i
                      /\ JsonLoads(sub_question_summaries'[m].summary_json)
                            = obs'.analyzed[k].summary]_vars

\* The questions of a list that a gather of run rid would search.
WouldSearch(rid, qs) == MissingQuestions(SubQMap(rid), qs)

\* The questions of the failed batch whose own call had returned a response
\* with an accepted item.
ReturnedWithEvidence ==
    {q \in DOMAIN obs.search_returned : TavilyEntry(obs.search_returned[q]).urls # {}}

\* C32 - Partial batch failure persists nothing: when one search call of a
\* gather's batch raises, the invocation ends, no search_results row is
\* written, also not for the questions of the batch whose own call had
\* returned, and every question of the batch is a cache miss for a later
\* gather of the run.
C32_PartialFailurePersistsNothing ==
    /\ [][(searches.phase = "searching" /\ searches'.phase = "none" /\ pc' # "judge") =>
             /\ pc' = "idle"
             /\ search_results' = search_results
             /\ sub_question_summaries' = sub_question_summaries]_vars
    /\ [](obs.crash_cause = "search_error" =>
             /\ WouldSearch(obs.crash_run_id, obs.searched) = obs.searched
             /\ \A q \in Range(obs.searched) :
                   \A i \in 1..Len(search_results) :
                      search_results[i].search_query = q =>
                         sub_questions[search_results[i].sub_question_id].research_run_id
                            # obs.crash_run_id)

\* C32 witness: of a batch of three searches, two had returned responses
\* with an accepted item when the third raised, and the store holds no
\* evidence row.
C32_Witness ==
    /\ obs.crash_cause = "search_error"
    /\ obs.searched = <<"s1", "s2", "s3">>
    /\ ReturnedWithEvidence = {"s1", "s3"}
    /\ search_results = <<>>

\* C33 - Judge list has no repeated question: the list every judge call
\* receives (base sub-questions followed by the accumulated follow-ups)
\* holds no question text twice, here for the runs whose decomposition and
\* whose follow-up list each hold no text twice, so that a repetition can
\* only come from a follow-up equal to a base sub-question.
C33_JudgeListNoRepeat ==
    (obs.step = "judge" /\ NoDuplicates(base_sub_questions)
                        /\ NoDuplicates(follow_up_questions))
    => NoDuplicates(obs.judge_input)

====
